---- MODULE Spec2Model ----
(***************************************************************************)
(* A model of the algorithmic pieces of the BERT notebook and of the       *)
(* notebook on recurrent neural networks:                                  *)
(*                                                                         *)
(*   - get_aligned_tokens_and_tags, the function that turns word-level     *)
(*     token/tag lists into padded sub-word level rows (token ids, token   *)
(*     mask, aligned tags, tag mask);                                      *)
(*   - the byte pair encoding (BPE) vocabulary extraction that the         *)
(*     "Tokeniser" section describes step by step;                         *)
(*   - the loop that masks one token at a time to score a text;            *)
(*   - the masked error of the training loop of the tagger;                *)
(*   - the prefix and the bi-directional classifier with their training    *)
(*     loops;                                                              *)
(*   - the preprocessing of the movie reviews.                             *)
(*                                                                         *)
(* Each piece has its own specification (SpecAligner, SpecBPE, SpecPLL,    *)
(* SpecTagging, SpecRNN, SpecVoc); the variables of the other pieces stay  *)
(* at their idle values.                                                   *)
(***************************************************************************)
EXTENDS Integers, Sequences, FiniteSets, TLC

VARIABLES
    \* ---- get_aligned_tokens_and_tags ----
    text_tokens,        \* argument: list of sentences, each a list of words
    text_tags,          \* argument: list of tag lists
    text_indexes,       \* list of token id rows
    text_aligned_tags,  \* list of aligned tag rows
    text_tag_masks,     \* list of tag mask rows
    text_token_masks,   \* list of token mask rows (1/0 until returned)
    max_len,            \* local of the padding part
    pos,                \* number of iterations done by the running loop
    pc,                 \* "idle", "align", "maxlen", "pad", "returned", "raised"
    result,             \* the returned 4-tuple of tensors (<<>> before the return)
    \* ---- byte pair encoding ----
    corpus_words,       \* the text the vocabulary is extracted from, as whole words
    target_size,        \* the size the vocabulary is to reach
    corpus,             \* the corpus as tokens, word by word
    vocabulary,         \* the set of tokens
    merges,             \* the pairs merged so far, in order
    new_word,           \* a word tokenised with the finished vocabulary
    new_tokens,         \* its tokens
    bpe_pc,             \* "idle", "collect", "merge", "frozen", "tokenised"
    \* ---- pseudo-log-likelihood score ----
    pll_text,           \* the text that is scored, as words
    input_ids,          \* token_indexes['input_ids'][0]
    inner_ids,          \* the list the loop runs over: input_ids[0, 1:-1].tolist()
    pll_i,              \* i of the running iteration (0 before the first)
    token_index,        \* the token the running iteration took out
    score,              \* the log probabilities added up so far, in order
    pll_pc,             \* "idle", "start", "next", "masked", "scored", "done"
    \* ---- one epoch of the tagging training loop ----
    train_token_errors, \* the error of every position of every row
    train_error,        \* the error of the batch
    tag_pc,             \* "idle", "errors", "masked", "done"
    \* ---- the recurrent classifiers (prefix, bi-directional) ----
    rnn_model,          \* "none", "prefix", "bidirectional": which Model is trained
    parameters,         \* the values of the initial state parameters of the Model
    has_grad,           \* the parameters the last forward pass has read
    train_x_indexed,    \* the padded rows of token indexes
    train_y,            \* the target of every text
    state,              \* the state of every row
    rnn_c,              \* c: the cell state of every row
    interm_states_list, \* the list the running loop appends to
    rnn_t,              \* number of iterations done by the running loop
    interm_states_fw,   \* the stacked states of the forward loop
    interm_states,      \* what goes into the output layer
    logits,             \* what comes out of it
    rnn_token_errors,   \* train_token_errors of the epoch
    rnn_error,          \* train_error of the epoch
    rnn_pc,             \* "idle", "epoch", "fw", "bw", "errors", "masked", "error", "step"
    \* ---- preprocessing of the movie reviews ----
    train_x_tokens,     \* the training texts, as lists of tokens
    frequencies,        \* the number of times every token occurs
    review_vocabulary,  \* vocabulary: the tokens by falling frequency, then pruned
    token2index,        \* the index of every token of vocab
    review_indexed,     \* train_x_indexed_np
    voc_pc              \* "idle", "count", "prune", "index", "done", "raised"

aligner_vars == <<text_tokens, text_tags, text_indexes, text_aligned_tags,
                  text_tag_masks, text_token_masks, max_len, pos, pc, result>>

bpe_vars == <<corpus_words, target_size, corpus, vocabulary, merges, new_word,
              new_tokens, bpe_pc>>

pll_vars == <<pll_text, input_ids, inner_ids, pll_i, token_index, score, pll_pc>>

tag_vars == <<train_token_errors, train_error, tag_pc>>

rnn_vars == <<rnn_model, parameters, has_grad, train_x_indexed, train_y, state,
              rnn_c, interm_states_list, rnn_t, interm_states_fw, interm_states, logits,
              rnn_token_errors, rnn_error, rnn_pc>>

voc_vars == <<train_x_tokens, frequencies, review_vocabulary, token2index,
              review_indexed, voc_pc>>

vars == <<aligner_vars, bpe_vars, pll_vars, tag_vars, rnn_vars, voc_vars>>

\* What a step of one piece leaves alone: the variables of the other pieces.
aligner_others == <<bpe_vars, pll_vars, tag_vars, rnn_vars, voc_vars>>
bpe_others == <<aligner_vars, pll_vars, tag_vars, rnn_vars, voc_vars>>
pll_others == <<aligner_vars, bpe_vars, tag_vars, rnn_vars, voc_vars>>
tag_others == <<aligner_vars, bpe_vars, pll_vars, rnn_vars, voc_vars>>
rnn_others == <<aligner_vars, bpe_vars, pll_vars, tag_vars, voc_vars>>
voc_others == <<aligner_vars, bpe_vars, pll_vars, tag_vars, rnn_vars>>

(***************************************************************************)
(* Bounds of the model.                                                    *)
(***************************************************************************)
MaxWords == 2
MaxWordLen == 3
MaxTarget == 6
MaxTextLen == 2
MaxReviewLen == 3

(***************************************************************************)
(* Python helpers.                                                         *)
(***************************************************************************)
Min(a, b) == IF a <= b THEN a ELSE b

SetMax(S) == CHOOSE x \in S : \A y \in S : y <= x

\* [x]*n
Repeat(x, n) == [k \in 1..n |-> x]

\* A bug to compare against: seq[1:], which keeps the closing [SEP].
SliceFromSecond(seq) == SubSeq(seq, 2, Len(seq))

\* seq[1:-1]
SliceInner(seq) == SubSeq(seq, 2, Len(seq) - 1)

\* All sequences over S of length at most n.
SeqsUpTo(S, n) == UNION {[1..k -> S] : k \in 0..n}

(***************************************************************************)
(* The tokeniser (a pre-trained BertTokenizer).  tokeniser(word) gives     *)
(* [CLS], the word pieces of the word, [SEP].  Three words stand for the   *)
(* three shapes a word can have: no piece at all (the empty string), one   *)
(* piece, several pieces.                                                  *)
(***************************************************************************)
cls_token_id == 101
sep_token_id == 102
pad_token_id == 0
no_tag == 0

Words == {"", "it", "don't"}
Tags == {1, 2}

WordPieces(word) ==
    CASE word = "" -> <<>>
      [] word = "it" -> <<1122>>
      [] word = "don't" -> <<1274, 112, 189>>

TokeniserInputIds(word) == <<cls_token_id>> \o WordPieces(word) \o <<sep_token_id>>

(***************************************************************************)
(* The body of the loop over the words of one sentence.  A row is the      *)
(* triple of the three lists the loop appends to.                          *)
(***************************************************************************)
Row(indexes, tag_mask, aligned_tags) ==
    [indexes |-> indexes, tag_mask |-> tag_mask, aligned_tags |-> aligned_tags]

RowCat(a, b) ==
    Row(a.indexes \o b.indexes, a.tag_mask \o b.tag_mask,
        a.aligned_tags \o b.aligned_tags)

\* A bug to compare against: the else branch forgotten, every piece of the
\* word gets the tag.
AlignWordEveryPiece(tag, word) ==
    LET pieces == SliceInner(TokeniserInputIds(word))
    IN  Row(pieces,
            [i \in 1..Len(pieces) |-> TRUE],
            [i \in 1..Len(pieces) |-> tag])

\* for (i, index) in enumerate(tokeniser(word)['input_ids'][1:-1]): ...
AlignWord(tag, word) ==
    LET pieces == SliceInner(TokeniserInputIds(word))
    IN  Row(pieces,
            [i \in 1..Len(pieces) |-> i = 1],
            [i \in 1..Len(pieces) |-> IF i = 1 THEN tag ELSE no_tag])

\* for (tag, word) in zip(tags, tokens): the first n pairs
RECURSIVE AlignWords(_, _, _)
AlignWords(tags, tokens, n) ==
    IF n = 0 THEN Row(<<>>, <<>>, <<>>)
    ELSE RowCat(AlignWords(tags, tokens, n - 1), AlignWord(tags[n], tokens[n]))

StartRow == Row(<<cls_token_id>>, <<FALSE>>, <<no_tag>>)
EndRow == Row(<<sep_token_id>>, <<FALSE>>, <<no_tag>>)

\* One iteration of "for (tokens, tags) in zip(text_tokens, text_tags)".
AlignSentence(tokens, tags) ==
    RowCat(RowCat(StartRow, AlignWords(tags, tokens, Min(Len(tags), Len(tokens)))),
           EndRow)

(***************************************************************************)
(* get_aligned_tokens_and_tags as a state machine.                         *)
(***************************************************************************)
Sentences == SeqsUpTo(Words, MaxWords)
TagLists == SeqsUpTo(Tags, MaxWords)

\* The batches handed to the function: none, one or two sentences, each
\* with a tag list of any length.
Batches ==
    {<<>>} \cup {<<a>> : a \in Sentences \X TagLists}
           \cup {<<a, b>> : a \in Sentences \X TagLists, b \in Sentences \X TagLists}

AlignerIdle ==
    /\ text_tokens = <<>>
    /\ text_tags = <<>>
    /\ text_indexes = <<>>
    /\ text_aligned_tags = <<>>
    /\ text_tag_masks = <<>>
    /\ text_token_masks = <<>>
    /\ max_len = 0
    /\ pos = 0
    /\ pc = "idle"
    /\ result = <<>>

AlignerCall ==
    /\ \E batch \in Batches :
          /\ text_tokens = [k \in 1..Len(batch) |-> batch[k][1]]
          /\ text_tags = [k \in 1..Len(batch) |-> batch[k][2]]
    /\ text_indexes = <<>>
    /\ text_aligned_tags = <<>>
    /\ text_tag_masks = <<>>
    /\ text_token_masks = <<>>
    /\ max_len = 0
    /\ pos = 0
    /\ pc = "align"
    /\ result = <<>>

\* One iteration of the loop over the sentences.
AlignNext ==
    /\ pc = "align"
    /\ pos < Min(Len(text_tokens), Len(text_tags))
    /\ LET row == AlignSentence(text_tokens[pos + 1], text_tags[pos + 1])
       IN  /\ text_indexes' = Append(text_indexes, row.indexes)
           /\ text_aligned_tags' = Append(text_aligned_tags, row.aligned_tags)
           /\ text_tag_masks' = Append(text_tag_masks, row.tag_mask)
    /\ pos' = pos + 1
    /\ UNCHANGED <<text_tokens, text_tags, text_token_masks, max_len, pc, result>>
    /\ UNCHANGED aligner_others

\* The loop over the sentences is exhausted.
AlignDone ==
    /\ pc = "align"
    /\ pos = Min(Len(text_tokens), Len(text_tags))
    /\ pc' = "maxlen"
    /\ pos' = 0
    /\ UNCHANGED <<text_tokens, text_tags, text_indexes, text_aligned_tags,
                   text_tag_masks, text_token_masks, max_len, result>>
    /\ UNCHANGED aligner_others

\* A bug to compare against: the length of the first row
\* instead of the longest.
MaxLenOfFirst(rows) == Len(rows[1])

\* max(len(indexes) for indexes in text_indexes), of a non-empty list
MaxLen(rows) == SetMax({Len(rows[k]) : k \in 1..Len(rows)})

\* max_len = max(len(indexes) for indexes in text_indexes)
ComputeMaxLen ==
    /\ pc = "maxlen"
    /\ text_indexes # <<>>
    /\ max_len' = MaxLen(text_indexes)
    /\ pc' = "pad"
    /\ UNCHANGED <<text_tokens, text_tags, text_indexes, text_aligned_tags,
                   text_tag_masks, text_token_masks, pos, result>>
    /\ UNCHANGED aligner_others

\* max() of an empty sequence raises ValueError.
MaxLenRaises ==
    /\ pc = "maxlen"
    /\ text_indexes = <<>>
    /\ pc' = "raised"
    /\ UNCHANGED <<text_tokens, text_tags, text_indexes, text_aligned_tags,
                   text_tag_masks, text_token_masks, max_len, pos, result>>
    /\ UNCHANGED aligner_others

\* A bug to compare against: the zeros before the ones.
PadTokenMaskLeft(num_tokens, m) == Repeat(0, m - num_tokens) \o Repeat(1, num_tokens)

\* [1]*num_tokens + [0]*(max_len - num_tokens)
PadTokenMask(num_tokens, m) == Repeat(1, num_tokens) \o Repeat(0, m - num_tokens)

\* A bug to compare against: the pad ids put in front of the row.
PadIndexesLeft(indexes, m) == Repeat(pad_token_id, m - Len(indexes)) \o indexes

\* text_indexes[i].extend([tokeniser.pad_token_id]*(max_len - num_tokens))
PadIndexes(indexes, m) == indexes \o Repeat(pad_token_id, m - Len(indexes))

\* A bug to compare against: the tag mask extended with True.
PadTagMaskTrue(tag_mask, m, num_tokens) == tag_mask \o Repeat(TRUE, m - num_tokens)

\* text_tag_masks[i].extend([False]*(max_len - num_tokens))
PadTagMask(tag_mask, m, num_tokens) == tag_mask \o Repeat(FALSE, m - num_tokens)

\* text_aligned_tags[i].extend([no_tag]*(max_len - num_tokens))
PadAlignedTags(aligned_tags, m, num_tokens) ==
    aligned_tags \o Repeat(no_tag, m - num_tokens)

\* One iteration of the padding loop.
PadNext ==
    /\ pc = "pad"
    /\ pos < Len(text_indexes)
    /\ LET i == pos + 1
           num_tokens == Len(text_indexes[i])
       IN  /\ text_token_masks' = Append(text_token_masks, PadTokenMask(num_tokens, max_len))
           /\ text_indexes' = [text_indexes EXCEPT ![i] = PadIndexes(@, max_len)]
           /\ text_tag_masks' =
                 [text_tag_masks EXCEPT ![i] = PadTagMask(@, max_len, num_tokens)]
           /\ text_aligned_tags' =
                 [text_aligned_tags EXCEPT ![i] = PadAlignedTags(@, max_len, num_tokens)]
    /\ pos' = pos + 1
    /\ UNCHANGED <<text_tokens, text_tags, max_len, pc, result>>
    /\ UNCHANGED aligner_others

\* torch.tensor(rows, dtype=torch.bool): a row of 1/0 becomes a row of booleans.
ToBool(rows) == [k \in 1..Len(rows) |-> [j \in 1..Len(rows[k]) |-> rows[k][j] # 0]]

ReturnValue(indexes, token_masks, aligned_tags, tag_masks) ==
    [token_indexes |-> indexes,
     token_mask |-> ToBool(token_masks),
     aligned_tags |-> aligned_tags,
     tag_mask |-> tag_masks]

Return ==
    /\ pc = "pad"
    /\ pos = Len(text_indexes)
    /\ result' = ReturnValue(text_indexes, text_token_masks, text_aligned_tags,
                             text_tag_masks)
    /\ pc' = "returned"
    /\ UNCHANGED <<text_tokens, text_tags, text_indexes, text_aligned_tags,
                   text_tag_masks, text_token_masks, max_len, pos>>
    /\ UNCHANGED aligner_others

NextAligner ==
    \/ AlignNext
    \/ AlignDone
    \/ ComputeMaxLen
    \/ MaxLenRaises
    \/ PadNext
    \/ Return

(***************************************************************************)
(* Byte pair encoding, as the "Tokeniser" section gives it:                *)
(*                                                                         *)
(*   1. Start with a corpus of text and tokenise it into whole words.      *)
(*   2. Collect all the individual characters from all the words, treat    *)
(*      these as tokens, and add them to the vocabulary.                   *)
(*   3. Look for the most frequent pair of adjacent vocabulary tokens in   *)
(*      the corpus.                                                        *)
(*   4. Concatenate this pair, replace all occurrences of it in the corpus *)
(*      with a single token, and add it to the vocabulary.                 *)
(*   5. Repeat the previous two steps until the vocabulary is a certain    *)
(*      size.                                                              *)
(*                                                                         *)
(* Each token has two versions: one that can only begin a word and one,    *)
(* written with '##' in front, for anywhere else in the word.  A token is  *)
(* a record of its version and its characters.                             *)
(***************************************************************************)
Token(initial, text) == [initial |-> initial, text |-> text]

\* A bug to compare against: the two versions of a token not told apart.
CharTokensUnmarked(word) == [i \in 1..Len(word) |-> Token(FALSE, <<word[i]>>)]

\* 'banana' as b ##a ##n ##a ##n ##a
CharTokens(word) == [i \in 1..Len(word) |-> Token(i = 1, <<word[i]>>)]

SplitCorpus(words) == [w \in 1..Len(words) |-> CharTokens(words[w])]

TokensOf(c) == UNION {{c[w][i] : i \in 1..Len(c[w])} : w \in 1..Len(c)}

\* The places of the corpus where x is directly followed by y.  A pair is
\* inside one word: the corpus is kept word by word.
PairPlaces(c, x, y) ==
    UNION {{<<w, i>> : i \in {j \in 1..(Len(c[w]) - 1) : c[w][j] = x /\ c[w][j + 1] = y}} :
           w \in 1..Len(c)}

PairFrequency(c, x, y) == Cardinality(PairPlaces(c, x, y))

\* A bug to compare against: the words run together, a pair may lie across
\* the end of a word.
AdjacentPairsAcrossWords(c) ==
    UNION {{<<c[w][i], c[w][i + 1]>> : i \in 1..(Len(c[w]) - 1)} : w \in 1..Len(c)}
    \cup {<<c[w][Len(c[w])], c[w + 1][1]>> :
             w \in {v \in 1..(Len(c) - 1) : Len(c[v]) > 0 /\ Len(c[v + 1]) > 0}}

AdjacentPairs(c) ==
    UNION {{<<c[w][i], c[w][i + 1]>> : i \in 1..(Len(c[w]) - 1)} : w \in 1..Len(c)}

\* A bug to compare against: any adjacent pair, whatever its frequency.
AnyAdjacentPairs(c) == AdjacentPairs(c)

\* "Let's say that the most frequent pair is 'an'": any of the pairs of the
\* highest frequency may be the one taken.
MostFrequentPairs(c) ==
    {p \in AdjacentPairs(c) :
        \A q \in AdjacentPairs(c) :
            PairFrequency(c, q[1], q[2]) <= PairFrequency(c, p[1], p[2])}

\* A bug to compare against: the merged token always written with '##'.
MergedTokenContinuation(x, y) == Token(FALSE, x.text \o y.text)

\* A bug to compare against: the pair concatenated the wrong way round.
MergedTokenSwapped(x, y) == Token(x.initial, y.text \o x.text)

\* b + ##an is ban, ##a + ##n is ##an
MergedToken(x, y) == Token(x.initial, x.text \o y.text)

\* Replace all occurrences of x y in a word, from the left.
RECURSIVE MergeFrom(_, _, _, _)
MergeFrom(word, i, x, y) ==
    IF i > Len(word) THEN <<>>
    ELSE IF i < Len(word) /\ word[i] = x /\ word[i + 1] = y
         THEN <<MergedToken(x, y)>> \o MergeFrom(word, i + 2, x, y)
         ELSE <<word[i]>> \o MergeFrom(word, i + 1, x, y)

\* A bug to compare against: only the first occurrence in a word is replaced.
RECURSIVE MergeFirstFrom(_, _, _, _)
MergeFirstFrom(word, i, x, y) ==
    IF i > Len(word) THEN <<>>
    ELSE IF i < Len(word) /\ word[i] = x /\ word[i + 1] = y
         THEN <<MergedToken(x, y)>> \o SubSeq(word, i + 2, Len(word))
         ELSE <<word[i]>> \o MergeFirstFrom(word, i + 1, x, y)

MergeWordFirstOnly(word, x, y) == MergeFirstFrom(word, 1, x, y)

MergeWord(word, x, y) == MergeFrom(word, 1, x, y)

\* A bug to compare against: the pair is replaced in the first word only.
MergeCorpusFirstWord(c, x, y) ==
    [w \in 1..Len(c) |-> IF w = 1 THEN MergeWord(c[w], x, y) ELSE c[w]]

MergeCorpus(c, x, y) == [w \in 1..Len(c) |-> MergeWord(c[w], x, y)]

\* Words over the letters a and b, and 'banana'.
RECURSIVE WordsOfLen(_)
WordsOfLen(n) ==
    IF n = 0 THEN {<<>>}
    ELSE {Append(w, ch) : w \in WordsOfLen(n - 1), ch \in {"a", "b"}}

Banana == <<"b", "a", "n", "a", "n", "a">>

\* A word in which a pair of equal tokens overlaps itself: ##a ##a ##a.
Aaaa == <<"a", "a", "a", "a">>

CorpusWordSet == UNION {WordsOfLen(n) : n \in 1..MaxWordLen}

\* The corpora: no word, one word, two words.
Corpora ==
    {<<>>, <<Banana>>, <<Aaaa>>} \cup {<<u>> : u \in CorpusWordSet}
                       \cup {<<u, v>> : u \in CorpusWordSet, v \in CorpusWordSet}

BPEIdle ==
    /\ corpus_words = <<>>
    /\ target_size = 0
    /\ corpus = <<>>
    /\ vocabulary = {}
    /\ merges = <<>>
    /\ new_word = <<>>
    /\ new_tokens = <<>>
    /\ bpe_pc = "idle"

\* Step 1.
BPEStart ==
    /\ corpus_words \in Corpora
    /\ target_size \in 0..MaxTarget
    /\ corpus = <<>>
    /\ vocabulary = {}
    /\ merges = <<>>
    /\ new_word = <<>>
    /\ new_tokens = <<>>
    /\ bpe_pc = "collect"

\* Step 2.
CollectCharacters ==
    /\ bpe_pc = "collect"
    /\ corpus' = SplitCorpus(corpus_words)
    /\ vocabulary' = TokensOf(SplitCorpus(corpus_words))
    /\ bpe_pc' = "merge"
    /\ UNCHANGED <<corpus_words, target_size, merges, new_word, new_tokens>>
    /\ UNCHANGED bpe_others

\* A bug to compare against: the loop runs while the size differs from the
\* size asked for.
NotAtTarget(vocab, target) == Cardinality(vocab) # target

\* "until the vocabulary is a certain size": the size is not reached yet.
BelowTarget(vocab, target) == Cardinality(vocab) < target

\* Steps 3 and 4, once.
MergeStep ==
    /\ bpe_pc = "merge"
    /\ BelowTarget(vocabulary, target_size)
    /\ \E p \in MostFrequentPairs(corpus) :
          /\ corpus' = MergeCorpus(corpus, p[1], p[2])
          /\ vocabulary' = vocabulary \cup {MergedToken(p[1], p[2])}
          /\ merges' = Append(merges, p)
    /\ UNCHANGED <<corpus_words, target_size, new_word, new_tokens, bpe_pc>>
    /\ UNCHANGED bpe_others

\* Step 5: the vocabulary has the size asked for, or there is no pair left
\* to merge.
Freeze ==
    /\ bpe_pc = "merge"
    /\ \/ ~BelowTarget(vocabulary, target_size)
       \/ AdjacentPairs(corpus) = {}
    /\ bpe_pc' = "frozen"
    /\ UNCHANGED <<corpus_words, target_size, corpus, vocabulary, merges, new_word,
                   new_tokens>>
    /\ UNCHANGED bpe_others

(***************************************************************************)
(* Tokenising a word with the finished vocabulary: the word is split into  *)
(* its characters, the merges are applied in the order in which they were  *)
(* learned until none applies, and a single character that is not in the   *)
(* vocabulary becomes the unknown token.                                   *)
(***************************************************************************)
UnknownToken == Token(FALSE, <<"[UNK]">>)

\* One pass over the merge list, from merge n on.
RECURSIVE ApplyMerges(_, _, _)
ApplyMerges(word, ms, n) ==
    IF n > Len(ms) THEN word
    ELSE ApplyMerges(MergeWord(word, ms[n][1], ms[n][2]), ms, n + 1)

\* Passes are repeated until a pass changes nothing.
RECURSIVE ApplyUntilStable(_, _)
ApplyUntilStable(word, ms) ==
    LET next == ApplyMerges(word, ms, 1)
    IN  IF next = word THEN word ELSE ApplyUntilStable(next, ms)

\* A bug to compare against: no token is marked as unknown.
MarkNothing(word, vocab) == word

MarkUnknown(word, vocab) ==
    [i \in 1..Len(word) |->
        IF Len(word[i].text) = 1 /\ word[i] \notin vocab THEN UnknownToken
        ELSE word[i]]

TokeniseWord(word, ms, vocab) ==
    MarkUnknown(ApplyUntilStable(CharTokens(word), ms), vocab)

Tokenise ==
    /\ bpe_pc = "frozen"
    /\ \E word \in CorpusWordSet :
          /\ new_word' = word
          /\ new_tokens' = TokeniseWord(word, merges, vocabulary)
    /\ bpe_pc' = "tokenised"
    /\ UNCHANGED <<corpus_words, target_size, corpus, vocabulary, merges>>
    /\ UNCHANGED bpe_others

NextBPE ==
    \/ CollectCharacters
    \/ MergeStep
    \/ Freeze
    \/ Tokenise

(***************************************************************************)
(* The pseudo-log-likelihood score of a text.                              *)
(***************************************************************************)
mask_token_id == 103

\* The word pieces of the words of a text, one after the other.
RECURSIVE TextPieces(_)
TextPieces(words) ==
    IF words = <<>> THEN <<>>
    ELSE WordPieces(Head(words)) \o TextPieces(Tail(words))

\* tokeniser(texts)['input_ids'][0]: [CLS], the pieces, [SEP].
TextInputIds(words) == <<cls_token_id>> \o TextPieces(words) \o <<sep_token_id>>

\* input_ids[0, i] = value (i counts from 0).
SetAt(ids, i, value) == [ids EXCEPT ![i + 1] = value]

\* A bug to compare against: the original token is not put back.
PutBackNothing(ids, i, value) == ids

\* token_indexes['input_ids'][0, i] = token_index
PutBack(ids, i, value) == SetAt(ids, i, value)

\* pseudo_logprobs[0, i, token_index] of the model's output for ids: what the
\* model gives is not computed, the summand keeps what it was asked.
PseudoLogProb(ids, i, token) == [input |-> ids, position |-> i, token |-> token]

PLLIdle ==
    /\ pll_text = <<>>
    /\ input_ids = <<>>
    /\ inner_ids = <<>>
    /\ pll_i = 0
    /\ token_index = 0
    /\ score = <<>>
    /\ pll_pc = "idle"

\* The text is tokenised and the score is 0.0.
PLLStart ==
    /\ pll_text \in Sentences
    /\ input_ids = TextInputIds(pll_text)
    /\ inner_ids = <<>>
    /\ pll_i = 0
    /\ token_index = 0
    /\ score = <<>>
    /\ pll_pc = "start"

\* for ... in enumerate(token_indexes['input_ids'][0, 1:-1].tolist(), start=1)
EnterLoop ==
    /\ pll_pc = "start"
    /\ inner_ids' = SliceInner(input_ids)
    /\ pll_pc' = "next"
    /\ UNCHANGED <<pll_text, input_ids, pll_i, token_index, score>>
    /\ UNCHANGED pll_others

\* The next (i, token_index) of the loop, and the mask put at i.
MaskToken ==
    /\ pll_pc = "next"
    /\ pll_i < Len(inner_ids)
    /\ pll_i' = pll_i + 1
    /\ token_index' = inner_ids[pll_i + 1]
    /\ input_ids' = SetAt(input_ids, pll_i + 1, mask_token_id)
    /\ pll_pc' = "masked"
    /\ UNCHANGED <<pll_text, inner_ids, score>>
    /\ UNCHANGED pll_others

\* The model is run on the masked text and the log probability is added.
AddLogProb ==
    /\ pll_pc = "masked"
    /\ score' = Append(score, PseudoLogProb(input_ids, pll_i, token_index))
    /\ pll_pc' = "scored"
    /\ UNCHANGED <<pll_text, input_ids, inner_ids, pll_i, token_index>>
    /\ UNCHANGED pll_others

RestoreToken ==
    /\ pll_pc = "scored"
    /\ input_ids' = PutBack(input_ids, pll_i, token_index)
    /\ pll_pc' = "next"
    /\ UNCHANGED <<pll_text, inner_ids, pll_i, token_index, score>>
    /\ UNCHANGED pll_others

LoopEnd ==
    /\ pll_pc = "next"
    /\ pll_i = Len(inner_ids)
    /\ pll_pc' = "done"
    /\ UNCHANGED <<pll_text, input_ids, inner_ids, pll_i, token_index, score>>
    /\ UNCHANGED pll_others

NextPLL ==
    \/ EnterLoop
    \/ MaskToken
    \/ AddLogProb
    \/ RestoreToken
    \/ LoopEnd

(***************************************************************************)
(* Tensors of errors.  The error of one position is what the loss function *)
(* gives for the logits and the target of that position: it is kept as the *)
(* summand it is, a sum is the set of its summands that are not 0.0 and a  *)
(* quotient is kept as numerator and denominator.                          *)
(***************************************************************************)
\* 0.0
Zero == <<>>

Positions(matrix) ==
    UNION {{<<r, j>> : j \in 1..Len(matrix[r])} : r \in 1..Len(matrix)}

\* ~mask
Not(mask) == [r \in 1..Len(mask) |-> [j \in 1..Len(mask[r]) |-> ~mask[r][j]]]

\* A bug to compare against: nothing is filled.
FillNothing(matrix, mask, value) == matrix

\* matrix.masked_fill(mask, value)
MaskedFill(matrix, mask, value) ==
    [r \in 1..Len(matrix) |->
        [j \in 1..Len(matrix[r]) |-> IF mask[r][j] THEN value ELSE matrix[r][j]]]

\* matrix.sum(): adding 0.0 changes nothing.
TensorSum(matrix) == {matrix[p[1]][p[2]] : p \in Positions(matrix)} \ {Zero}

\* mask.sum(): the number of True entries.
MaskSum(mask) == Cardinality({p \in Positions(mask) : mask[p[1]][p[2]]})

\* a/b
Quotient(a, b) == [numerator |-> a, denominator |-> b]

(***************************************************************************)
(* One epoch of the training loop of the tagger, on the tensors that       *)
(* get_aligned_tokens_and_tags returned.                                   *)
(***************************************************************************)
\* cross_entropy(logits.transpose(1, 2), aligned_tags, reduction='none')
CrossEntropy(tags) ==
    [r \in 1..Len(tags) |->
        [j \in 1..Len(tags[r]) |-> <<r, j, tags[r][j]>>]]

TagIdle ==
    /\ train_token_errors = <<>>
    /\ train_error = <<>>
    /\ tag_pc = "idle"

TokenErrors ==
    /\ pc = "returned"
    /\ tag_pc = "idle"
    /\ train_token_errors' = CrossEntropy(result.aligned_tags)
    /\ tag_pc' = "errors"
    /\ UNCHANGED train_error
    /\ UNCHANGED tag_others

MaskTokenErrors ==
    /\ tag_pc = "errors"
    /\ train_token_errors' = MaskedFill(train_token_errors, Not(result.tag_mask), Zero)
    /\ tag_pc' = "masked"
    /\ UNCHANGED train_error
    /\ UNCHANGED tag_others

TrainError ==
    /\ tag_pc = "masked"
    /\ train_error' = Quotient(TensorSum(train_token_errors), MaskSum(result.tag_mask))
    /\ tag_pc' = "done"
    /\ UNCHANGED train_token_errors
    /\ UNCHANGED tag_others

NextTagging ==
    \/ NextAligner
    \/ TokenErrors
    \/ MaskTokenErrors
    \/ TrainError

(***************************************************************************)
(* The recurrent classifiers of the second notebook: the Model that        *)
(* classifies every prefix of a text and the bi-directional Model, each    *)
(* with its training loop.  What a cell, a layer or a loss function        *)
(* computes is not computed: a value is kept as the term that says what it *)
(* was computed from.  The value of a parameter is a number.               *)
(***************************************************************************)
pad_index == 0

\* The indexes of the tokens that are not '<PAD>'.
TokenIndexes == {1, 2}

ParameterValues == {0, 1}

Targets == {0, 1}

\* np.full((len(train_x), max_len), pad_index) filled with the tokens.
PadRow(text, m) == text \o Repeat(pad_index, m - Len(text))

Indexed(texts) ==
    LET m == SetMax({Len(texts[r]) : r \in 1..Len(texts)})
    IN  [r \in 1..Len(texts) |-> PadRow(texts[r], m)]

\* The training sets: one or two texts, not all of them empty.
TrainTexts ==
    LET texts == SeqsUpTo(TokenIndexes, MaxTextLen)
    IN  {s \in {<<a>> : a \in texts} \cup {<<a, b>> : a \in texts, b \in texts} :
            \E r \in 1..Len(s) : Len(s[r]) > 0}

\* parameter[None, :].tile((batch_size, 1))
Tile(value, batch_size) == [r \in 1..batch_size |-> <<value>>]

\* cell(embedded[:, t, :], (state, rnn_c)) for the rows of a batch: the new state
\* and the new cell state of every row.
LSTMCell(cell, x, s, cs) ==
    [state |-> [r \in 1..Len(x) |-> <<cell, "h", x[r], s[r], cs[r]>>],
     c |-> [r \in 1..Len(x) |-> <<cell, "c", x[r], s[r], cs[r]>>]]

\* x_indexed[:, t] (t counts from 0)
Column(x, t) == [r \in 1..Len(x) |-> x[r][t + 1]]

\* x_indexed != pad_index, at time t
NonPadColumn(x, t) == [r \in 1..Len(x) |-> x[r][t + 1] # pad_index]

\* A bug to compare against: the new value whatever the mask.
WhereAlways(mask, new, old) == new

\* torch.where(mask[:, None], new, old)
Where(mask, new, old) == [r \in 1..Len(mask) |-> IF mask[r] THEN new[r] ELSE old[r]]

\* A bug to compare against: the list is not reversed.
ReverseNot(list) == list

\* list[::-1]
Reverse(list) == [k \in 1..Len(list) |-> list[Len(list) + 1 - k]]

\* torch.stack(list, dim=1): from a list over time of rows to rows over time.
Stack(list, batch_size) ==
    [r \in 1..batch_size |-> [k \in 1..Len(list) |-> list[k][r]]]

\* torch.concat((a, b), dim=2)
Concat(a, b) == [r \in 1..Len(a) |-> [k \in 1..Len(a[r]) |-> <<a[r][k], b[r][k]>>]]

\* self.output_layer(interm_states)
OutputLayer(states) ==
    [r \in 1..Len(states) |-> [k \in 1..Len(states[r]) |-> <<"out", states[r][k]>>]]

\* binary_cross_entropy_with_logits(logits, train_y_seq, reduction='none'),
\* train_y_seq being the target of a text at every one of its positions.
BinaryCrossEntropy(lg, y) ==
    [r \in 1..Len(lg) |-> [k \in 1..Len(lg[r]) |-> <<r, k, lg[r][k], y[r]>>]]

\* x_indexed == pad_index
PadMask(x) == [r \in 1..Len(x) |-> [k \in 1..Len(x[r]) |-> x[r][k] = pad_index]]

BatchSize == Len(train_x_indexed)
TimeSteps == Len(train_x_indexed[1])

RNNIdle ==
    /\ rnn_model = "none"
    /\ parameters = <<>>
    /\ has_grad = {}
    /\ train_x_indexed = <<>>
    /\ train_y = <<>>
    /\ state = <<>>
    /\ rnn_c = <<>>
    /\ interm_states_list = <<>>
    /\ rnn_t = 0
    /\ interm_states_fw = <<>>
    /\ interm_states = <<>>
    /\ logits = <<>>
    /\ rnn_token_errors = <<>>
    /\ rnn_error = <<>>
    /\ rnn_pc = "idle"

\* The Model is made (its initial states are zeros) and the data indexed.
RNNStart ==
    /\ rnn_model \in {"prefix", "bidirectional"}
    /\ parameters =
          IF rnn_model = "prefix" THEN [rnn_s0 |-> 0, rnn_c0 |-> 0]
          ELSE [rnn_fw_s0 |-> 0, rnn_fw_c0 |-> 0, rnn_bw_s0 |-> 0, rnn_bw_c0 |-> 0]
    /\ has_grad = {}
    /\ \E texts \in TrainTexts :
          /\ train_x_indexed = Indexed(texts)
          /\ train_y \in [1..Len(texts) -> Targets]
    /\ state = <<>>
    /\ rnn_c = <<>>
    /\ interm_states_list = <<>>
    /\ rnn_t = 0
    /\ interm_states_fw = <<>>
    /\ interm_states = <<>>
    /\ logits = <<>>
    /\ rnn_token_errors = <<>>
    /\ rnn_error = <<>>
    /\ rnn_pc = "epoch"

\* Model.forward of the prefix classifier up to its loop: the state and the
\* cell state are both made from rnn_s0.
PrefixForward ==
    /\ rnn_pc = "epoch"
    /\ rnn_model = "prefix"
    /\ state' = Tile(parameters.rnn_s0, BatchSize)
    /\ rnn_c' = Tile(parameters.rnn_s0, BatchSize)
    /\ has_grad' = {"rnn_s0"}
    /\ interm_states_list' = <<>>
    /\ rnn_t' = 0
    /\ rnn_pc' = "fw"
    /\ UNCHANGED <<rnn_model, parameters, train_x_indexed, train_y, interm_states_fw,
                   interm_states, logits, rnn_token_errors, rnn_error>>
    /\ UNCHANGED rnn_others

\* Model.forward of the bi-directional classifier up to its first loop.
BidirectionalForward ==
    /\ rnn_pc = "epoch"
    /\ rnn_model = "bidirectional"
    /\ state' = Tile(parameters.rnn_fw_s0, BatchSize)
    /\ rnn_c' = Tile(parameters.rnn_fw_c0, BatchSize)
    /\ has_grad' = {"rnn_fw_s0", "rnn_fw_c0"}
    /\ interm_states_list' = <<>>
    /\ rnn_t' = 0
    /\ rnn_pc' = "fw"
    /\ UNCHANGED <<rnn_model, parameters, train_x_indexed, train_y, interm_states_fw,
                   interm_states, logits, rnn_token_errors, rnn_error>>
    /\ UNCHANGED rnn_others

\* for t in range(time_steps)
FwStep ==
    /\ rnn_pc = "fw"
    /\ rnn_t < TimeSteps
    /\ LET cell == IF rnn_model = "prefix" THEN "rnn_cell" ELSE "rnn_fw_cell"
           new == LSTMCell(cell, Column(train_x_indexed, rnn_t), state, rnn_c)
       IN  /\ state' = new.state
           /\ rnn_c' = new.c
           /\ interm_states_list' = Append(interm_states_list, new.state)
    /\ rnn_t' = rnn_t + 1
    /\ UNCHANGED <<rnn_model, parameters, has_grad, train_x_indexed, train_y,
                   interm_states_fw, interm_states, logits, rnn_token_errors,
                   rnn_error, rnn_pc>>
    /\ UNCHANGED rnn_others

\* The end of Model.forward of the prefix classifier.
PrefixOutput ==
    /\ rnn_pc = "fw"
    /\ rnn_model = "prefix"
    /\ rnn_t = TimeSteps
    /\ interm_states' = Stack(interm_states_list, BatchSize)
    /\ logits' = OutputLayer(Stack(interm_states_list, BatchSize))
    /\ rnn_pc' = "errors"
    /\ UNCHANGED <<rnn_model, parameters, has_grad, train_x_indexed, train_y, state, rnn_c,
                   interm_states_list, rnn_t, interm_states_fw, rnn_token_errors,
                   rnn_error>>
    /\ UNCHANGED rnn_others

\* The forward states are stacked and the backward loop is set up.
BackwardStart ==
    /\ rnn_pc = "fw"
    /\ rnn_model = "bidirectional"
    /\ rnn_t = TimeSteps
    /\ interm_states_fw' = Stack(interm_states_list, BatchSize)
    /\ state' = Tile(parameters.rnn_bw_s0, BatchSize)
    /\ rnn_c' = Tile(parameters.rnn_bw_c0, BatchSize)
    /\ has_grad' = has_grad \cup {"rnn_bw_s0", "rnn_bw_c0"}
    /\ interm_states_list' = <<>>
    /\ rnn_t' = 0
    /\ rnn_pc' = "bw"
    /\ UNCHANGED <<rnn_model, parameters, train_x_indexed, train_y, interm_states,
                   logits, rnn_token_errors, rnn_error>>
    /\ UNCHANGED rnn_others

\* The time step of the iteration of the backward loop that comes next:
\* reversed(range(time_steps)).
BackwardTime == TimeSteps - 1 - rnn_t

\* for t in reversed(range(time_steps))
BwStep ==
    /\ rnn_pc = "bw"
    /\ rnn_t < TimeSteps
    /\ LET t == BackwardTime
           new == LSTMCell("rnn_bw_cell", Column(train_x_indexed, t), state, rnn_c)
           mask == NonPadColumn(train_x_indexed, t)
       IN  /\ state' = Where(mask, new.state, state)
           /\ rnn_c' = Where(mask, new.c, rnn_c)
           /\ interm_states_list' =
                 Append(interm_states_list, Where(mask, new.state, state))
    /\ rnn_t' = rnn_t + 1
    /\ UNCHANGED <<rnn_model, parameters, has_grad, train_x_indexed, train_y,
                   interm_states_fw, interm_states, logits, rnn_token_errors,
                   rnn_error, rnn_pc>>
    /\ UNCHANGED rnn_others

\* The end of Model.forward of the bi-directional classifier.
BidirectionalOutput ==
    /\ rnn_pc = "bw"
    /\ rnn_t = TimeSteps
    /\ LET interm_states_bw == Stack(Reverse(interm_states_list), BatchSize)
       IN  /\ interm_states' = Concat(interm_states_fw, interm_states_bw)
           /\ logits' = OutputLayer(Concat(interm_states_fw, interm_states_bw))
    /\ rnn_pc' = "errors"
    /\ UNCHANGED <<rnn_model, parameters, has_grad, train_x_indexed, train_y, state, rnn_c,
                   interm_states_list, rnn_t, interm_states_fw, rnn_token_errors,
                   rnn_error>>
    /\ UNCHANGED rnn_others

RNNTokenErrors ==
    /\ rnn_pc = "errors"
    /\ rnn_token_errors' = BinaryCrossEntropy(logits, train_y)
    /\ rnn_pc' = "masked"
    /\ UNCHANGED <<rnn_model, parameters, has_grad, train_x_indexed, train_y, state, rnn_c,
                   interm_states_list, rnn_t, interm_states_fw, interm_states, logits,
                   rnn_error>>
    /\ UNCHANGED rnn_others

RNNMaskTokenErrors ==
    /\ rnn_pc = "masked"
    /\ rnn_token_errors' = MaskedFill(rnn_token_errors, PadMask(train_x_indexed), Zero)
    /\ rnn_pc' = "error"
    /\ UNCHANGED <<rnn_model, parameters, has_grad, train_x_indexed, train_y, state, rnn_c,
                   interm_states_list, rnn_t, interm_states_fw, interm_states, logits,
                   rnn_error>>
    /\ UNCHANGED rnn_others

RNNTrainError ==
    /\ rnn_pc = "error"
    /\ rnn_error' = Quotient(TensorSum(rnn_token_errors),
                             MaskSum(Not(PadMask(train_x_indexed))))
    /\ rnn_pc' = "step"
    /\ UNCHANGED <<rnn_model, parameters, has_grad, train_x_indexed, train_y, state, rnn_c,
                   interm_states_list, rnn_t, interm_states_fw, interm_states, logits,
                   rnn_token_errors>>
    /\ UNCHANGED rnn_others

\* The body of the loop over the epochs is over: what it left in the tensors
\* of the loop and in the locals of Model.forward is read no more, each of
\* them is assigned in the next epoch before it is read.
EpochEnd ==
    /\ has_grad' = {}
    /\ state' = <<>>
    /\ rnn_c' = <<>>
    /\ interm_states_list' = <<>>
    /\ rnn_t' = 0
    /\ interm_states_fw' = <<>>
    /\ interm_states' = <<>>
    /\ logits' = <<>>
    /\ rnn_token_errors' = <<>>
    /\ rnn_error' = <<>>

\* train_error.backward(); optimiser.step(): a parameter the forward pass has
\* read gets a new value, any other keeps the one it has.
OptimiserStep ==
    /\ rnn_pc = "step"
    /\ parameters' \in [DOMAIN parameters -> ParameterValues]
    /\ \A name \in DOMAIN parameters :
          name \notin has_grad => parameters'[name] = parameters[name]
    /\ EpochEnd
    /\ rnn_pc' = "epoch"
    /\ UNCHANGED <<rnn_model, train_x_indexed, train_y>>
    /\ UNCHANGED rnn_others

NextRNN ==
    \/ PrefixForward
    \/ BidirectionalForward
    \/ FwStep
    \/ PrefixOutput
    \/ BackwardStart
    \/ BwStep
    \/ BidirectionalOutput
    \/ RNNTokenErrors
    \/ RNNMaskTokenErrors
    \/ RNNTrainError
    \/ OptimiserStep

(***************************************************************************)
(* The preprocessing of the movie reviews: the vocabulary of the tokens    *)
(* that occur min_freq times at least, and the indexed training texts.     *)
(***************************************************************************)
min_freq == 3

ReviewTokens == {"a", "b"}

\* The training sets: one or two texts.
Reviews ==
    LET texts == SeqsUpTo(ReviewTokens, MaxReviewLen)
    IN  {<<u>> : u \in texts} \cup {<<u, v>> : u \in texts, v \in texts}

\* token for text in train_x_tokens for token in text
RECURSIVE Flatten(_)
Flatten(texts) == IF texts = <<>> THEN <<>> ELSE Head(texts) \o Flatten(Tail(texts))

\* collections.Counter(tokens)
Counter(tokens) ==
    [t \in {tokens[k] : k \in 1..Len(tokens)} |->
        Cardinality({k \in 1..Len(tokens) : tokens[k] = t})]

\* frequencies.keys(): the tokens in the order in which they are first met.
RECURSIVE Keys(_)
Keys(tokens) ==
    IF tokens = <<>> THEN <<>>
    ELSE LET rest == Keys(SubSeq(tokens, 1, Len(tokens) - 1))
             last == tokens[Len(tokens)]
         IN  IF \E k \in 1..Len(rest) : rest[k] = last THEN rest ELSE Append(rest, last)

\* The place of a key in a list sorted by falling frequency: after the keys
\* that are not less frequent (the sort keeps the order of equal keys).
RECURSIVE InsertByFrequency(_, _, _)
InsertByFrequency(sorted, key, freq) ==
    IF sorted = <<>> THEN <<key>>
    ELSE IF freq[Head(sorted)] >= freq[key]
         THEN <<Head(sorted)>> \o InsertByFrequency(Tail(sorted), key, freq)
         ELSE <<key>> \o sorted

\* sorted(keys, key=frequencies.get, reverse=True)
RECURSIVE SortedByFrequency(_, _)
SortedByFrequency(keys, freq) ==
    IF keys = <<>> THEN <<>>
    ELSE InsertByFrequency(SortedByFrequency(SubSeq(keys, 1, Len(keys) - 1), freq),
                           keys[Len(keys)], freq)

\* {token: i for (i, token) in enumerate(vocab)}
Enumerate(vocab) ==
    [t \in {vocab[k] : k \in 1..Len(vocab)} |->
        (CHOOSE k \in 1..Len(vocab) : vocab[k] = t) - 1]

\* token2index.get(token, default)
Get(index, token, default) == IF token \in DOMAIN index THEN index[token] ELSE default

\* np.full((len(texts), max_len), pad) with index.get(token, unk) at the
\* places of the tokens.
IndexTexts(texts, index, pad, unk) ==
    LET m == SetMax({Len(texts[r]) : r \in 1..Len(texts)})
    IN  [r \in 1..Len(texts) |->
            [k \in 1..m |->
                IF k <= Len(texts[r]) THEN Get(index, texts[r][k], unk) ELSE pad]]

VocIdle ==
    /\ train_x_tokens = <<>>
    /\ frequencies = <<>>
    /\ review_vocabulary = <<>>
    /\ token2index = <<>>
    /\ review_indexed = <<>>
    /\ voc_pc = "idle"

VocStart ==
    /\ train_x_tokens \in Reviews
    /\ frequencies = <<>>
    /\ review_vocabulary = <<>>
    /\ token2index = <<>>
    /\ review_indexed = <<>>
    /\ voc_pc = "count"

CountFrequencies ==
    /\ voc_pc = "count"
    /\ frequencies' = Counter(Flatten(train_x_tokens))
    /\ review_vocabulary' =
          SortedByFrequency(Keys(Flatten(train_x_tokens)), Counter(Flatten(train_x_tokens)))
    /\ voc_pc' = "prune"
    /\ UNCHANGED <<train_x_tokens, token2index, review_indexed>>
    /\ UNCHANGED voc_others

\* while frequencies[vocabulary[-1]] < min_freq: vocabulary.pop()
PruneStep ==
    /\ voc_pc = "prune"
    /\ review_vocabulary # <<>>
    /\ frequencies[review_vocabulary[Len(review_vocabulary)]] < min_freq
    /\ review_vocabulary' = SubSeq(review_vocabulary, 1, Len(review_vocabulary) - 1)
    /\ UNCHANGED <<train_x_tokens, frequencies, token2index, review_indexed, voc_pc>>
    /\ UNCHANGED voc_others

\* vocabulary[-1] of the empty list: IndexError.
PruneRaises ==
    /\ voc_pc = "prune"
    /\ review_vocabulary = <<>>
    /\ voc_pc' = "raised"
    /\ UNCHANGED <<train_x_tokens, frequencies, review_vocabulary, token2index,
                   review_indexed>>
    /\ UNCHANGED voc_others

PruneDone ==
    /\ voc_pc = "prune"
    /\ review_vocabulary # <<>>
    /\ frequencies[review_vocabulary[Len(review_vocabulary)]] >= min_freq
    /\ token2index' = Enumerate(<<"<PAD>", "<UNK>">> \o review_vocabulary)
    /\ voc_pc' = "index"
    /\ UNCHANGED <<train_x_tokens, frequencies, review_vocabulary, review_indexed>>
    /\ UNCHANGED voc_others

IndexTrainingTexts ==
    /\ voc_pc = "index"
    /\ review_indexed' =
          IndexTexts(train_x_tokens, token2index, token2index["<PAD>"], token2index["<UNK>"])
    /\ voc_pc' = "done"
    /\ UNCHANGED <<train_x_tokens, frequencies, review_vocabulary, token2index>>
    /\ UNCHANGED voc_others

NextVoc ==
    \/ CountFrequencies
    \/ PruneStep
    \/ PruneRaises
    \/ PruneDone
    \/ IndexTrainingTexts

(***************************************************************************)
(* The specifications.                                                     *)
(***************************************************************************)
InitAligner == AlignerCall /\ BPEIdle /\ PLLIdle /\ TagIdle /\ RNNIdle /\ VocIdle

SpecAligner == InitAligner /\ [][NextAligner]_vars

InitBPE == AlignerIdle /\ BPEStart /\ PLLIdle /\ TagIdle /\ RNNIdle /\ VocIdle

SpecBPE == InitBPE /\ [][NextBPE]_vars

\* The construction of the vocabulary alone.  The steps are those of one
\* sequential procedure: while a step can be taken, one is taken.
NextBuilder ==
    \/ CollectCharacters
    \/ MergeStep
    \/ Freeze

FairSpecBuilder == InitBPE /\ [][NextBuilder]_vars /\ WF_vars(NextBuilder)

InitPLL == AlignerIdle /\ BPEIdle /\ PLLStart /\ TagIdle /\ RNNIdle /\ VocIdle

SpecPLL == InitPLL /\ [][NextPLL]_vars

InitRNN == AlignerIdle /\ BPEIdle /\ PLLIdle /\ TagIdle /\ RNNStart /\ VocIdle

SpecRNN == InitRNN /\ [][NextRNN]_vars

InitVoc == AlignerIdle /\ BPEIdle /\ PLLIdle /\ TagIdle /\ RNNIdle /\ VocStart

SpecVoc == InitVoc /\ [][NextVoc]_vars

\* The tagger is trained on what the aligner returned.
SpecTagging == InitAligner /\ [][NextTagging]_vars

(***************************************************************************)
(* Properties of get_aligned_tokens_and_tags.                              *)
(*                                                                         *)
(* They are stated on the inputs and on the returned tensors, by position, *)
(* without the operators the function is modelled with.                    *)
(***************************************************************************)
Returned == pc = "returned"

RowIds == 1..Len(result.token_indexes)

CountTrue(mask) == Cardinality({j \in 1..Len(mask) : mask[j]})

\* The (word, tag) pairs of sentence i: zip pairs the words and the tags
\* from the front.
PairCount(i) == Min(Len(text_tokens[i]), Len(text_tags[i]))

\* The number of word pieces of the first n words of sentence i.
RECURSIVE PiecesBefore(_, _)
PiecesBefore(i, n) ==
    IF n = 0 THEN 0
    ELSE PiecesBefore(i, n - 1) + Len(WordPieces(text_tokens[i][n]))

\* The length of row i before padding: [CLS], the pieces, [SEP].
UnpaddedLen(i) == 2 + PiecesBefore(i, PairCount(i))

\* The position (from 1) of the first piece of word k of sentence i.
FirstPiecePos(i, k) == 2 + PiecesBefore(i, k - 1)

\* The word whose pieces cover position j of row i (0 when j is the
\* position of [CLS], of [SEP] or of a pad).
WordAt(i, j) ==
    LET ks == {k \in 1..PairCount(i) :
                  /\ FirstPiecePos(i, k) <= j
                  /\ j < FirstPiecePos(i, k) + Len(WordPieces(text_tokens[i][k]))}
    IN  IF ks = {} THEN 0 ELSE CHOOSE k \in ks : TRUE

HasEmptyWord(i) ==
    \E k \in 1..PairCount(i) : WordPieces(text_tokens[i][k]) = <<>>

HasLongWord(i) ==
    \E k \in 1..PairCount(i) : Len(WordPieces(text_tokens[i][k])) > 1

\* C1: for every sentence (any tokeniser, any words, any tags) the number of
\* True entries of its tag mask row is the number of its (word, tag) pairs.
C1_TagMaskCountsPairs ==
    Returned =>
        \A i \in RowIds : CountTrue(result.tag_mask[i]) = PairCount(i)

\* C2: when the words and the tags of some sentence differ in number, the
\* function reports it: it never returns rows made from the shorter of the two.
C2_MismatchIsReported ==
    Returned =>
        \A i \in RowIds : Len(text_tokens[i]) = Len(text_tags[i])

\* C3: a word that the tokeniser maps to no piece is reported or replaced by
\* a placeholder: when the function returns, the word still has a position of
\* its own in the row and one tag carrying position.
C3_EmptyWordKeepsItsTag ==
    Returned =>
        \A i \in RowIds :
            HasEmptyWord(i) =>
                /\ CountTrue(result.token_mask[i]) >= 2 + PairCount(i)
                /\ \A k \in 1..PairCount(i) :
                      \E j \in 1..Len(result.tag_mask[i]) :
                          /\ result.tag_mask[i][j]
                          /\ result.aligned_tags[i][j] = text_tags[i][k]

\* C4: for a non-empty batch the four returned tensors have, for every
\* sentence, one and the same length: the largest length a row of the batch
\* has before padding.
C4_RowsHaveBatchMaxLength ==
    Returned =>
        LET longest == SetMax({UnpaddedLen(i) : i \in 1..Len(text_tokens)})
        IN  /\ Len(result.token_indexes) = Len(text_tokens)
            /\ Len(result.token_mask) = Len(text_tokens)
            /\ Len(result.aligned_tags) = Len(text_tokens)
            /\ Len(result.tag_mask) = Len(text_tokens)
            /\ \A i \in 1..Len(text_tokens) :
                  /\ Len(result.token_indexes[i]) = longest
                  /\ Len(result.token_mask[i]) = longest
                  /\ Len(result.aligned_tags[i]) = longest
                  /\ Len(result.tag_mask[i]) = longest

C4_Witness ==
    /\ Returned
    /\ Len(text_tokens) = 2
    /\ UnpaddedLen(1) < UnpaddedLen(2)
    /\ Len(result.tag_mask[1]) = UnpaddedLen(2)

\* C5: in the returned tensors a True of the tag mask is at a position where
\* the token mask is True: no pad position carries a tag.
C5_TagMaskWithinTokenMask ==
    Returned =>
        \A i \in RowIds :
            \A j \in 1..Len(result.tag_mask[i]) :
                result.tag_mask[i][j] => result.token_mask[i][j]

C5_Witness ==
    /\ Returned
    /\ \E i \in RowIds :
          /\ \E j \in 1..Len(result.tag_mask[i]) : result.tag_mask[i][j]
          /\ \E j \in 1..Len(result.token_mask[i]) : ~result.token_mask[i][j]

\* C6: for a sentence with as many tags as words, each word having a piece,
\* the k-th True of the tag mask is at the first piece of the k-th word and
\* the aligned tag there is the k-th tag; at every other position ([CLS],
\* [SEP], later pieces, pads) the tag mask is False and the aligned tag is
\* no_tag.
C6_TagAtFirstPieceOnly ==
    Returned =>
        \A i \in RowIds :
            (Len(text_tokens[i]) = Len(text_tags[i]) /\ ~HasEmptyWord(i)) =>
                \A j \in 1..Len(result.tag_mask[i]) :
                    LET k == WordAt(i, j)
                    IN  IF k # 0 /\ j = FirstPiecePos(i, k)
                        THEN /\ result.tag_mask[i][j]
                             /\ result.aligned_tags[i][j] = text_tags[i][k]
                             /\ CountTrue(SubSeq(result.tag_mask[i], 1, j)) = k
                        ELSE /\ ~result.tag_mask[i][j]
                             /\ result.aligned_tags[i][j] = no_tag

C6_Witness ==
    /\ Returned
    /\ \E i \in RowIds :
          /\ Len(text_tokens[i]) = 2
          /\ Len(text_tags[i]) = 2
          /\ text_tags[i][1] # text_tags[i][2]
          /\ ~HasEmptyWord(i)
          /\ Len(WordPieces(text_tokens[i][1])) > 1
          /\ result.tag_mask[i][FirstPiecePos(i, 2)]
          /\ Len(result.tag_mask[i]) > UnpaddedLen(i)

\* C7: before padding, the token ids of every sentence (also of one without
\* words) are [CLS], then the pieces of each word of its (word, tag) pairs in
\* the order of the words, then [SEP]; [CLS] and [SEP] carry no tag and have
\* the aligned tag no_tag.
C7_UnpaddedRowIsClsPiecesSep ==
    pc = "maxlen" =>
        \A i \in 1..Len(text_indexes) :
            LET n == UnpaddedLen(i)
            IN  /\ Len(text_indexes[i]) = n
                /\ Len(text_tag_masks[i]) = n
                /\ Len(text_aligned_tags[i]) = n
                /\ text_indexes[i][1] = cls_token_id
                /\ text_indexes[i][n] = sep_token_id
                /\ \A j \in 2..(n - 1) :
                      LET k == WordAt(i, j)
                      IN  /\ k # 0
                          /\ text_indexes[i][j] =
                                WordPieces(text_tokens[i][k])[j - FirstPiecePos(i, k) + 1]
                /\ ~text_tag_masks[i][1] /\ text_aligned_tags[i][1] = no_tag
                /\ ~text_tag_masks[i][n] /\ text_aligned_tags[i][n] = no_tag

C7_Witness ==
    /\ pc = "maxlen"
    /\ Len(text_indexes) = 2
    /\ text_tokens[1] = <<>>
    /\ text_indexes[1] = <<cls_token_id, sep_token_id>>
    /\ Len(text_tokens[2]) = 2
    /\ Len(text_tags[2]) = 2
    /\ HasLongWord(2)

\* C8: padding is added on the right only and changes nothing of the row as
\* it was before padding: a pad position has the pad id, token mask False,
\* tag mask False and aligned tag no_tag; every other position has token mask
\* True.  (The row before padding is what the loop over the sentences left
\* in the lists.)
C8_PaddingOnTheRightOnly ==
    /\ [](pc = "pad" =>
             \A i \in (pos + 1)..Len(text_indexes) :
                 Len(text_indexes[i]) = UnpaddedLen(i))
    /\ [][(pc = "pad" /\ pos' = pos + 1) =>
             LET i == pos + 1
                 n == Len(text_indexes[i])
             IN  /\ \A r \in 1..Len(text_indexes) :
                       \A j \in 1..Len(text_indexes[r]) :
                           /\ text_indexes'[r][j] = text_indexes[r][j]
                           /\ text_tag_masks'[r][j] = text_tag_masks[r][j]
                           /\ text_aligned_tags'[r][j] = text_aligned_tags[r][j]
                 /\ \A j \in (n + 1)..Len(text_indexes'[i]) :
                       /\ text_indexes'[i][j] = pad_token_id
                       /\ ~text_tag_masks'[i][j]
                       /\ text_aligned_tags'[i][j] = no_tag
                       /\ text_token_masks'[i][j] = 0
                 /\ \A j \in 1..n : text_token_masks'[i][j] = 1]_vars
    /\ [](Returned =>
             \A i \in RowIds :
                 \A j \in 1..Len(result.token_mask[i]) :
                     result.token_mask[i][j] <=> j <= UnpaddedLen(i))

C8_Witness ==
    /\ Returned
    /\ \E i \in RowIds :
          /\ UnpaddedLen(i) < Len(result.token_indexes[i])
          /\ result.token_indexes[i][Len(result.token_indexes[i])] = pad_token_id
          /\ HasLongWord(i)

(***************************************************************************)
(* Properties of the byte pair encoding.                                   *)
(***************************************************************************)

\* C9: each merge step adds exactly one entry to the vocabulary (the merged
\* token is never one the vocabulary already has), and no step removes an
\* entry.
C9_MergeAddsExactlyOneEntry ==
    [][/\ vocabulary \subseteq vocabulary'
       /\ Len(merges') > Len(merges) =>
             /\ Len(merges') = Len(merges) + 1
             /\ Cardinality(vocabulary') = Cardinality(vocabulary) + 1]_vars

C9_Witness ==
    /\ bpe_pc = "merge"
    /\ Len(merges) >= 2
    /\ \E t \in vocabulary : t.initial /\ Len(t.text) > 1
    /\ \E t \in vocabulary : ~t.initial /\ Len(t.text) > 1

\* The characters of a token sequence, written one after the other with
\* nothing in between and without the '##'.
RECURSIVE Surface(_)
Surface(tokens) ==
    IF tokens = <<>> THEN <<>>
    ELSE Head(tokens).text \o Surface(Tail(tokens))

\* Every character of the word is in the vocabulary in the version its place
\* in the word asks for.
CharactersKnown(word, vocab) ==
    \A i \in 1..Len(word) : Token(i = 1, <<word[i]>>) \in vocab

\* C10 as stated: for every word, the tokens the finished vocabulary and its
\* merge list give, written one after the other, are the word.
C10_TokenisationRoundTrips ==
    bpe_pc = "tokenised" => Surface(new_tokens) = new_word

\* C10 as it holds: the same, for the words all of whose characters are in
\* the vocabulary (each in the version of its place: first of the word, or
\* later); any other word has the unknown token among its tokens.
C10_KnownWordRoundTrips ==
    bpe_pc = "tokenised" =>
        IF CharactersKnown(new_word, vocabulary)
        THEN Surface(new_tokens) = new_word
        ELSE \E i \in 1..Len(new_tokens) : new_tokens[i] = UnknownToken

C10_Witness ==
    /\ bpe_pc = "tokenised"
    /\ CharactersKnown(new_word, vocabulary)
    /\ \A w \in 1..Len(corpus_words) : corpus_words[w] # new_word
    /\ Len(new_tokens) = 2
    /\ Len(new_tokens[1].text) > 1
    /\ Surface(new_tokens) = new_word

\* The construction has stopped.
Stopped == bpe_pc \in {"frozen", "tokenised"}

\* The pair merged last.
LastMerge(ms) == ms[Len(ms)]

\* The tokens of the banana example.
TokB == Token(TRUE, <<"b">>)
TokA == Token(FALSE, <<"a">>)
TokN == Token(FALSE, <<"n">>)
TokAN == Token(FALSE, <<"a", "n">>)

BananaRun == corpus_words = <<Banana>> /\ target_size = 4

OccursAs(t) ==
    /\ Len(t.text) = 1
    /\ \E w \in 1..Len(corpus_words) :
          \E i \in 1..Len(corpus_words[w]) :
              /\ corpus_words[w][i] = t.text[1]
              /\ t.initial = (i = 1)

\* C12: before the first merge every character of the corpus is in the
\* vocabulary in each version (word-initial, '##') in which it occurs, and
\* the vocabulary has no other entry.
C12_VocabularyStartsWithCharacters ==
    (bpe_pc = "merge" /\ merges = <<>>) =>
        /\ \A t \in vocabulary : OccursAs(t)
        /\ \A ch \in {"a", "b", "n"} :
              \A first \in BOOLEAN :
                  OccursAs(Token(first, <<ch>>)) => Token(first, <<ch>>) \in vocabulary

C12_Witness ==
    /\ bpe_pc = "merge"
    /\ merges = <<>>
    /\ Token(TRUE, <<"a">>) \in vocabulary
    /\ Token(FALSE, <<"a">>) \in vocabulary
    /\ Token(TRUE, <<"b">>) \notin vocabulary
    /\ Token(FALSE, <<"b">>) \in vocabulary

\* No pair of adjacent tokens occurs more than once in the corpus.
NoPairTwice(c) ==
    \A p \in AdjacentPairs(c) : PairFrequency(c, p[1], p[2]) <= 1

\* No word of the corpus has two tokens left.
NoPairLeft(c) == \A w \in 1..Len(c) : Len(c[w]) <= 1

CharacterVocabulary ==
    {t \in {Token(first, <<ch>>) : first \in BOOLEAN, ch \in {"a", "b", "n"}} :
        OccursAs(t)}

C15_CorpusWordsTokeniseAsBuilt ==
    Stopped =>
        \A w \in 1..Len(corpus_words) :
            TokeniseWord(corpus_words[w], merges, vocabulary) = corpus[w]

C15_Witness ==
    /\ bpe_pc = "frozen"
    /\ Len(corpus_words) = 2
    /\ corpus_words[1] # corpus_words[2]
    /\ Len(merges) >= 2
    /\ \A w \in 1..2 : Len(corpus[w]) < Len(corpus_words[w])
    /\ TokeniseWord(corpus_words[2], merges, vocabulary) = corpus[2]

\* C16: the aligner returns the four padded sequences for every batch whose
\* sentences have one tag for each word, the batch without sentences and
\* the sentences without words included; it raises nothing.
WellFormed ==
    /\ Len(text_tokens) = Len(text_tags)
    /\ \A i \in 1..Len(text_tokens) : Len(text_tokens[i]) = Len(text_tags[i])

C16_NoFaultOnWellFormedBatch == WellFormed => pc # "raised"

\* C17: row i of the four outputs belongs to sentence i, and its part before
\* the padding is what sentence i alone gives: whatever the other sentences
\* of the batch are, the first positions of row i are the row of sentence i
\* aligned by itself, with token mask True, and the token mask is False
\* after them.
C17_RowDependsOnItsSentenceOnly ==
    Returned =>
        /\ Len(result.token_indexes) = Len(text_tokens)
        /\ \A i \in RowIds :
              LET own == AlignSentence(text_tokens[i], text_tags[i])
                  n == Len(own.indexes)
              IN  /\ n <= Len(result.token_indexes[i])
                  /\ SubSeq(result.token_indexes[i], 1, n) = own.indexes
                  /\ SubSeq(result.aligned_tags[i], 1, n) = own.aligned_tags
                  /\ SubSeq(result.tag_mask[i], 1, n) = own.tag_mask
                  /\ \A j \in 1..Len(result.token_mask[i]) :
                        result.token_mask[i][j] <=> j <= n

C17_Witness ==
    /\ Returned
    /\ Len(text_tokens) = 2
    /\ text_tokens[1] # text_tokens[2]
    /\ Len(text_tokens[1]) = 1
    /\ Len(text_tags[1]) = 1
    /\ HasLongWord(2)
    /\ UnpaddedLen(1) < Len(result.token_indexes[1])
    /\ SubSeq(result.token_indexes[1], 1, UnpaddedLen(1)) =
          AlignSentence(text_tokens[1], text_tags[1]).indexes

\* A step that records a merge.
MergeTaken == Len(merges') > Len(merges)

\* x directly followed by y inside a word of c.
OccursInsideWord(c, x, y) ==
    \E w \in 1..Len(c) : \E i \in 1..(Len(c[w]) - 1) : c[w][i] = x /\ c[w][i + 1] = y

\* C18: pairs are counted and merged inside a word only: the pair of a merge
\* stands inside one word of the corpus, its second token is never the first
\* token of a word, and the merge leaves the number of words and the
\* characters of each word as they were; the corpus has one entry for each
\* word of the text all along.
C18_MergesStayInsideWords ==
    /\ [](bpe_pc \in {"merge", "frozen", "tokenised"} =>
             Len(corpus) = Len(corpus_words))
    /\ [][MergeTaken =>
             LET p == LastMerge(merges')
             IN  /\ OccursInsideWord(corpus, p[1], p[2])
                 /\ ~p[2].initial
                 /\ Len(corpus') = Len(corpus)
                 /\ \A w \in 1..Len(corpus) :
                       Surface(corpus'[w]) = Surface(corpus[w])]_vars

\* Two words, and a merge whose text is also the text that the end of the
\* first word and the start of the second would give.
C18_Witness ==
    /\ Stopped
    /\ Len(corpus_words) = 2
    /\ Len(corpus) = 2
    /\ Len(merges) >= 1
    /\ \E k \in 1..Len(merges) :
          merges[k][1].text \o merges[k][2].text =
             <<corpus_words[1][Len(corpus_words[1])], corpus_words[2][1]>>
    /\ ~OccursInsideWord(corpus, corpus[1][Len(corpus[1])], corpus[2][1])

\* The places (word, position) where x is directly followed by y.
Places(c, x, y) ==
    UNION {{<<w, i>> : i \in {j \in 1..(Len(c[w]) - 1) : c[w][j] = x /\ c[w][j + 1] = y}} :
           w \in 1..Len(c)}

Occurrences(c, x, y) == Cardinality(Places(c, x, y))

\* The pairs that stand somewhere in a word of c.
PairsInWords(c) ==
    {p \in TokensOf(c) \X TokensOf(c) : OccursInsideWord(c, p[1], p[2])}

HasMaximumFrequency(c, p) ==
    /\ OccursInsideWord(c, p[1], p[2])
    /\ \A q \in PairsInWords(c) :
          Occurrences(c, q[1], q[2]) <= Occurrences(c, p[1], p[2])

\* Place a comes before place b in a scan word by word, left to right.
ScannedBefore(a, b) == a[1] < b[1] \/ (a[1] = b[1] /\ a[2] < b[2])

FirstPlace(c, p) ==
    CHOOSE a \in Places(c, p[1], p[2]) :
        \A b \in Places(c, p[1], p[2]) : b = a \/ ScannedBefore(a, b)

\* Among the pairs of the maximum frequency, the one the scan meets first.
FirstEncountered(c) ==
    CHOOSE p \in PairsInWords(c) :
        /\ HasMaximumFrequency(c, p)
        /\ \A q \in PairsInWords(c) :
              (HasMaximumFrequency(c, q) /\ q # p) =>
                  ScannedBefore(FirstPlace(c, p), FirstPlace(c, q))

C20_MergeReplacesEveryOccurrence ==
    [][MergeTaken =>
          LET x == LastMerge(merges')[1]
              y == LastMerge(merges')[2]
              merged == [initial |-> x.initial, text |-> x.text \o y.text]
          IN  /\ ~OccursInsideWord(corpus', x, y)
              /\ merged \in vocabulary'
              /\ merged \in TokensOf(corpus')
              /\ vocabulary' \ vocabulary = {merged}
              /\ \A w \in 1..Len(corpus) :
                    Len(corpus'[w]) =
                        Len(corpus[w]) -
                            Cardinality({j \in 1..Len(corpus'[w]) : corpus'[w][j] = merged})]_vars

\* The pair (##a, ##a) merged in a ##a ##a ##a, where its two places
\* overlap, and the merge of a first token, which stays a first token.
C20_Witness ==
    /\ Stopped
    /\ corpus_words = <<Aaaa>>
    /\ Len(merges) = 2
    /\ merges[1][1] = merges[1][2]
    /\ merges[1][1] = Token(FALSE, <<"a">>)
    /\ merges[2][1].initial
    /\ corpus = <<(<<Token(TRUE, <<"a", "a", "a">>), Token(FALSE, <<"a">>)>>)>>

\* The number of characters of the word that stand before token i (the
\* unknown token stands for one character).
RECURSIVE CharsBefore(_, _)
CharsBefore(tokens, i) ==
    IF i <= 1 THEN 0
    ELSE CharsBefore(tokens, i - 1) +
         (IF tokens[i - 1] = UnknownToken THEN 1 ELSE Len(tokens[i - 1].text))

\* C21: a token of a word tokenised with the finished vocabulary is an entry
\* of the vocabulary or the unknown token, and the unknown token stands only
\* where the single character of that place is not in the vocabulary.
C21_TokensAreVocabularyOrUnknown ==
    bpe_pc = "tokenised" =>
        \A i \in 1..Len(new_tokens) :
            /\ new_tokens[i] \in vocabulary \cup {UnknownToken}
            /\ new_tokens[i] = UnknownToken =>
                  LET k == CharsBefore(new_tokens, i) + 1
                  IN  /\ k <= Len(new_word)
                      /\ Token(k = 1, <<new_word[k]>>) \notin vocabulary

\* A word with a merged token of the vocabulary followed by the unknown
\* token.
C21_Witness ==
    /\ bpe_pc = "tokenised"
    /\ Len(new_tokens) = 2
    /\ Len(new_tokens[1].text) = 2
    /\ new_tokens[1] \in vocabulary
    /\ new_tokens[2] = UnknownToken
    /\ Token(FALSE, <<new_word[3]>>) \notin vocabulary

\* C28: the token mask row of a sentence is True values followed by False
\* values, and the number of its True values is 2 plus the number of word
\* pieces of the words of the sentence.
C28_TokenMaskIsTrueRunThenFalseRun ==
    Returned =>
        \A i \in RowIds :
            /\ \A j \in 1..Len(result.token_mask[i]) :
                  \A k \in 1..Len(result.token_mask[i]) :
                      (j < k /\ result.token_mask[i][k]) => result.token_mask[i][j]
            /\ CountTrue(result.token_mask[i]) = 2 + PiecesBefore(i, PairCount(i))

C28_Witness ==
    /\ Returned
    /\ Len(text_tokens) = 2
    /\ HasLongWord(1)
    /\ Len(text_tokens[2]) = 2
    /\ Len(text_tags[2]) = 2
    /\ CountTrue(result.token_mask[2]) = 2 + PiecesBefore(2, 2)
    /\ CountTrue(result.token_mask[2]) < Len(result.token_mask[2])
    /\ result.token_mask[2][1]
    /\ ~result.token_mask[2][Len(result.token_mask[2])]

\* The number of tokens the words of the corpus have in all.
RECURSIVE TokenCount(_)
TokenCount(c) == IF c = <<>> THEN 0 ELSE Len(Head(c)) + TokenCount(Tail(c))

\* C29: all along the construction the tokens of a word of the corpus,
\* written one after the other, are the word, and a merge step leaves the
\* corpus with fewer tokens than it had.
C29_TokensSpellTheWordAndMergesShrink ==
    /\ [](bpe_pc \in {"merge", "frozen", "tokenised"} =>
             /\ Len(corpus) = Len(corpus_words)
             /\ \A w \in 1..Len(corpus) : Surface(corpus[w]) = corpus_words[w])
    /\ [][MergeTaken => TokenCount(corpus') < TokenCount(corpus)]_vars

C29_Witness ==
    /\ Stopped
    /\ Len(corpus_words) = 2
    /\ Len(merges) = 2
    /\ TokenCount(corpus) + Len(merges) < TokenCount(SplitCorpus(corpus_words))
    /\ \A w \in 1..2 : Surface(corpus[w]) = corpus_words[w]

(***************************************************************************)
(* Properties of the pseudo-log-likelihood loop.                           *)
(***************************************************************************)
\* The ids of the text as the tokeniser gave them.
OriginalIds == TextInputIds(pll_text)

InIteration == pll_pc \in {"masked", "scored"}

\* The positions (from 1) that hold the mask id.
MaskedPositions(ids) == {j \in 1..Len(ids) : ids[j] = mask_token_id}

\* C22: during iteration i the position i, which is never that of [CLS] or
\* of [SEP], is the one position that holds the mask id and every other
\* position holds its original id; the inner positions are masked once each,
\* from left to right; outside an iteration, and after the loop, the ids are
\* the original ids.
C22_OneMaskAtATimeAndRestored ==
    /\ [](InIteration =>
             /\ 1 <= pll_i /\ pll_i <= Len(OriginalIds) - 2
             /\ MaskedPositions(input_ids) = {pll_i + 1}
             /\ \A j \in 1..Len(OriginalIds) :
                   j # pll_i + 1 => input_ids[j] = OriginalIds[j]
             /\ token_index = OriginalIds[pll_i + 1])
    /\ [](~InIteration => input_ids = OriginalIds)
    /\ [][pll_i' # pll_i => pll_i' = pll_i + 1 /\ pll_pc' = "masked"]_vars
    /\ [](pll_pc = "done" =>
             /\ Len(score) = Len(OriginalIds) - 2
             /\ \A k \in 1..Len(score) :
                   /\ score[k].position = k
                   /\ score[k].token = OriginalIds[k + 1]
                   /\ MaskedPositions(score[k].input) = {k + 1})

C22_Witness ==
    /\ pll_pc = "done"
    /\ Len(pll_text) = 2
    /\ Len(score) = 4
    /\ input_ids = OriginalIds
    /\ score[4].input[5] = mask_token_id
    /\ score[4].input[2] = OriginalIds[2]

(***************************************************************************)
(* Properties of the training loop of the tagger.                          *)
(***************************************************************************)
\* The number of words of the batch.
RECURSIVE WordCount(_)
WordCount(sentences) ==
    IF sentences = <<>> THEN 0
    ELSE Len(Head(sentences)) + WordCount(Tail(sentences))

\* C26: the error of the batch is the sum of the errors of the positions
\* whose tag mask is True, divided by the number of these positions, and
\* this number is the number of words of the batch.
C26_ErrorIsOverOnePositionPerWord ==
    tag_pc = "done" =>
        /\ train_error.numerator =
              {<<p[1], p[2], result.aligned_tags[p[1]][p[2]]>> :
                  p \in {q \in Positions(result.tag_mask) : result.tag_mask[q[1]][q[2]]}}
        /\ train_error.denominator = MaskSum(result.tag_mask)
        /\ train_error.denominator = WordCount(text_tokens)

(***************************************************************************)
(* Properties of the recurrent classifiers.                                *)
(***************************************************************************)
\* The position (from 1) the backward loop has just scanned, when it has
\* done n iterations.
ScannedAt(n) == TimeSteps + 1 - n

\* The positions the backward loop has scanned so far.
Scanned == {k \in 1..TimeSteps : k >= ScannedAt(rnn_t)}

IsPad(r, k) == train_x_indexed[r][k] = pad_index

\* C23: in the backward loop the state and the cell state of a row are the
\* initial backward ones as long as only pad tokens were scanned from the
\* end of the row, and a step at a pad token changes neither of them (the
\* state that the step stores is the unchanged one).
C23_PadKeepsBackwardState ==
    /\ [](rnn_pc = "bw" =>
             \A r \in 1..BatchSize :
                 (\A k \in Scanned : IsPad(r, k)) =>
                     /\ state[r] = <<parameters.rnn_bw_s0>>
                     /\ rnn_c[r] = <<parameters.rnn_bw_c0>>)
    /\ [][(rnn_pc = "bw" /\ rnn_t' = rnn_t + 1) =>
             \A r \in 1..BatchSize :
                 IsPad(r, ScannedAt(rnn_t')) =>
                     /\ state'[r] = state[r]
                     /\ rnn_c'[r] = rnn_c[r]
                     /\ interm_states_list'[rnn_t'][r] = state[r]]_vars

\* After training has changed the initial backward state: a row whose last
\* token is a pad keeps it while the other row has left it.
C23_Witness ==
    /\ rnn_pc = "bw"
    /\ rnn_t = 1
    /\ BatchSize = 2
    /\ parameters.rnn_bw_s0 = 1
    /\ IsPad(1, TimeSteps)
    /\ ~IsPad(2, TimeSteps)
    /\ state[1] = <<1>>
    /\ state[2] # <<1>>

\* The state and the cell state of row r after the forward cell has read
\* the positions 1..t.
RECURSIVE ForwardPair(_, _)
ForwardPair(r, t) ==
    IF t = 0
    THEN [state |-> <<parameters.rnn_fw_s0>>, c |-> <<parameters.rnn_fw_c0>>]
    ELSE LET prev == ForwardPair(r, t - 1)
             x == train_x_indexed[r][t]
         IN  [state |-> <<"rnn_fw_cell", "h", x, prev.state, prev.c>>,
              c |-> <<"rnn_fw_cell", "c", x, prev.state, prev.c>>]

\* The state and the cell state of row r after the backward cell has read
\* the positions t..TimeSteps from the last one down, the pads passed over.
RECURSIVE BackwardPair(_, _)
BackwardPair(r, t) ==
    IF t > TimeSteps
    THEN [state |-> <<parameters.rnn_bw_s0>>, c |-> <<parameters.rnn_bw_c0>>]
    ELSE LET prev == BackwardPair(r, t + 1)
             x == train_x_indexed[r][t]
         IN  IF x = pad_index THEN prev
             ELSE [state |-> <<"rnn_bw_cell", "h", x, prev.state, prev.c>>,
                   c |-> <<"rnn_bw_cell", "c", x, prev.state, prev.c>>]

ForwardIsOver == rnn_pc \in {"errors", "masked", "error", "step"}

\* C24: in the bi-directional Model the vector at index t of a row is the
\* forward state computed from the positions up to t together with the
\* backward state computed from the positions from t on: both are states of
\* the same token.
C24_StatesOfTheSameTokenArePaired ==
    (rnn_model = "bidirectional" /\ ForwardIsOver) =>
        \A r \in 1..BatchSize :
            \A t \in 1..TimeSteps :
                interm_states[r][t] = <<ForwardPair(r, t).state, BackwardPair(r, t).state>>

C24_Witness ==
    /\ rnn_model = "bidirectional"
    /\ rnn_pc = "errors"
    /\ BatchSize = 2
    /\ train_x_indexed[1] = <<1, 2>>
    /\ train_x_indexed[2] = <<2, pad_index>>
    /\ interm_states[1][1][2] = BackwardPair(1, 1).state
    /\ interm_states[1][1][2] # interm_states[1][2][2]
    /\ interm_states[2][2][2] = <<parameters.rnn_bw_s0>>

\* The positions of the batch that are not pads.
NonPadPositions == {p \in Positions(train_x_indexed) : ~IsPad(p[1], p[2])}

\* C25: the error of an epoch, of the prefix classifier and of the
\* bi-directional one, is the sum of the errors of the positions that are
\* not pads divided by the number of these positions; nothing of a pad
\* position (its logits, its target) is in it.
C25_ErrorIsOverNonPadPositions ==
    rnn_pc = "step" =>
        /\ rnn_error.numerator =
              {<<p[1], p[2], logits[p[1]][p[2]], train_y[p[1]]>> : p \in NonPadPositions}
        /\ rnn_error.denominator = Cardinality(NonPadPositions)

C25_Witness ==
    /\ rnn_pc = "step"
    /\ rnn_model = "prefix"
    /\ BatchSize = 2
    /\ TimeSteps = 2
    /\ IsPad(1, 1)
    /\ IsPad(1, 2)
    /\ ~IsPad(2, 2)
    /\ rnn_error.denominator = 2
    /\ Cardinality(rnn_error.numerator) = 2

\* C30: the loop of the prefix classifier starts, for every row, from the
\* state rnn_s0 and from the cell state rnn_c0.
C30_CellStateStartsFromItsParameter ==
    (rnn_model = "prefix" /\ rnn_pc = "fw" /\ rnn_t = 0) =>
        /\ state = Tile(parameters.rnn_s0, BatchSize)
        /\ rnn_c = Tile(parameters.rnn_c0, BatchSize)

(***************************************************************************)
(* Properties of the preprocessing of the movie reviews.                   *)
(***************************************************************************)
\* The number of times a token occurs in the training texts.
TimesInTraining(token) ==
    Cardinality({p \in Positions(train_x_tokens) : train_x_tokens[p[1]][p[2]] = token})

FrequentTokens == {t \in ReviewTokens : TimesInTraining(t) >= min_freq}

\* C27: for every training set the pruning loop ends, and leaves in the
\* vocabulary the training tokens that occur min_freq times at least and no
\* other, also when there is no such token; a token that is not in it is
\* indexed as unk_index and a cell after the end of a text holds pad_index.
C27_VocabularyIsTheFrequentTokens ==
    /\ voc_pc # "raised"
    /\ voc_pc \in {"index", "done"} =>
          {review_vocabulary[k] : k \in 1..Len(review_vocabulary)} = FrequentTokens
    /\ voc_pc = "done" =>
          \A r \in 1..Len(train_x_tokens) :
              \A k \in 1..Len(review_indexed[r]) :
                  review_indexed[r][k] =
                      IF k > Len(train_x_tokens[r]) THEN 0
                      ELSE IF train_x_tokens[r][k] \in FrequentTokens
                           THEN token2index[train_x_tokens[r][k]]
                           ELSE 1

====
